---- MODULE Spec2Model ----
(***************************************************************************)
(* A model of mfmodell/modell_new.py: mod-ell reductions of newforms.      *)
(*                                                                         *)
(* GF(ell) elements are the integers 0..ell-1.  Rationals are pairs        *)
(* <<n, d>> in lowest terms with d > 0.  An element of the Hecke field K   *)
(* is the sequence of its d rational coordinates in terms of the powers    *)
(* of K's generator (what coordinates_in_terms_of_powers() returns).       *)
(* Python strings are sequences of one-character strings.                  *)
(***************************************************************************)
EXTENDS Integers, Sequences, FiniteSets, TLC

VARIABLES pc, arg, ret, ells, levels, pos, nf, nnf, nfx, fetched, forms, ff_no_field

vars == <<pc, arg, ret, ells, levels, pos, nf, nnf, nfx, fetched, forms, ff_no_field>>

runvars == <<ells, levels, pos, nf, nnf, nfx, fetched, forms, ff_no_field>>

\* a Python list: the sequence with each of its elements evaluated
list(s) == s \o <<>>

\* Python's None, and a value that is not None
None == [none |-> TRUE, val |-> <<>>]

Some(v) == [none |-> FALSE, val |-> v]

\* the truth value of a list or None
Truthy(x) == ~x.none /\ x.val # <<>>

(***************************************************************************)
(* Integers and rationals                                                  *)
(***************************************************************************)
Abs(n) == IF n < 0 THEN -n ELSE n

Min(a, b) == IF a < b THEN a ELSE b

Max(a, b) == IF a < b THEN b ELSE a

RECURSIVE GCD(_, _)
GCD(a, b) == IF b = 0 THEN Abs(a) ELSE GCD(b, a % Abs(b))

RECURSIVE Pow(_, _)
Pow(b, e) == IF e = 0 THEN 1 ELSE b * Pow(b, e - 1)

Rat(n, d) ==
    LET g == GCD(n, d)
        s == IF d < 0 THEN -1 ELSE 1
    IN  <<(s * n) \div g, (s * d) \div g>>

RatInt(n) == <<n, 1>>

RatAdd(x, y) == Rat(x[1] * y[2] + y[1] * x[2], x[2] * y[2])

RatMul(x, y) == Rat(x[1] * y[1], x[2] * y[2])

RatNeg(x) == <<-x[1], x[2]>>

RatDiv(x, y) == Rat(x[1] * y[2], x[2] * y[1])

RECURSIVE RatSum(_)
RatSum(s) == IF s = <<>> THEN RatInt(0) ELSE RatAdd(s[1], RatSum(Tail(s)))

RECURSIVE IntSum(_)
IntSum(s) == IF s = <<>> THEN 0 ELSE s[1] + IntSum(Tail(s))

(***************************************************************************)
(* GF(ell)                                                                 *)
(***************************************************************************)
GF(ell) == 0 .. (ell - 1)

\* 1/x in GF(ell), x a unit
FlInv(x, ell) == CHOOSE y \in GF(ell) : (x * y) % ell = 1

\* Fl(q) for a rational q whose denominator is prime to ell
FlOfRat(q, ell) == ((q[1] % ell) * FlInv(q[2] % ell, ell)) % ell

(***************************************************************************)
(* The number field K = QQ[x]/(poly), poly monic of degree d, given by     *)
(* its coefficients, constant term first (NumberField(Qx(f.field_poly))).  *)
(***************************************************************************)
Degree(poly) == Len(poly) - 1

\* the product of two coordinate vectors as a polynomial of degree <= 2d-2
PolyMul(x, y) ==
    list([n \in 1 .. (Len(x) + Len(y) - 1) |->
        RatSum(list([i \in 1 .. Len(x) |->
            IF n - i + 1 >= 1 /\ n - i + 1 <= Len(y)
            THEN RatMul(x[i], y[n - i + 1]) ELSE RatInt(0)]))])

\* reduce modulo poly: the top power x^m is replaced by
\* -x^(m-d)*(c_0 + ... + c_(d-1) x^(d-1))
RECURSIVE PolyReduce(_, _)
PolyReduce(p, poly) ==
    LET d == Degree(poly)
        m == Len(p)
    IN  IF m <= d THEN p
        ELSE PolyReduce(
                list([n \in 1 .. (m - 1) |->
                    IF n >= m - d
                    THEN RatAdd(p[n], RatNeg(RatMul(p[m], RatInt(poly[n - (m - d) + 1]))))
                    ELSE p[n]]),
                poly)

\* pad a short coordinate vector with zeros to length d
PadTo(p, d) == list([n \in 1 .. d |-> IF n <= Len(p) THEN p[n] ELSE RatInt(0)])

\* bi*bj in K
KMul(x, y, poly) == PadTo(PolyReduce(PolyMul(x, y), poly), Degree(poly))

\* K.gen()
KGen(poly) ==
    IF Degree(poly) = 1 THEN <<RatInt(-poly[1])>>
    ELSE list([n \in 1 .. Degree(poly) |-> IF n = 2 THEN RatInt(1) ELSE RatInt(0)])

KOne(poly) == list([n \in 1 .. Degree(poly) |-> IF n = 1 THEN RatInt(1) ELSE RatInt(0)])

RECURSIVE KPow(_, _, _)
KPow(x, e, poly) == IF e = 0 THEN KOne(poly) ELSE KMul(x, KPow(x, e - 1, poly), poly)

\* K(c)/den for a list c of integer coordinates
KOfNumDen(c, den, poly) == list([n \in 1 .. Degree(poly) |-> Rat(c[n], den)])

(***************************************************************************)
(* Matrices over QQ, as sequences of rows                                  *)
(***************************************************************************)
\* the sequence s without its i-th entry
Drop(s, i) == list([n \in 1 .. (Len(s) - 1) |-> IF n < i THEN s[n] ELSE s[n + 1]])

Minor(M, i, j) == list([r \in 1 .. (Len(M) - 1) |-> Drop(Drop(M, i)[r], j)])

RECURSIVE Det(_)
Det(M) ==
    IF Len(M) = 0 THEN RatInt(1)
    ELSE RatSum(list([j \in 1 .. Len(M) |->
            RatMul(RatInt(IF j % 2 = 1 THEN 1 ELSE -1),
                   RatMul(M[1][j], Det(Minor(M, 1, j))))]))

\* Matrix(...).inverse() of an invertible matrix
MatInverse(M) ==
    list([i \in 1 .. Len(M) |-> list([j \in 1 .. Len(M) |->
        RatDiv(RatMul(RatInt(IF (i + j) % 2 = 0 THEN 1 ELSE -1), Det(Minor(M, j, i))),
               Det(M))])])

MatMul(A, B) ==
    list([i \in 1 .. Len(A) |-> list([j \in 1 .. Len(B[1]) |->
        RatSum(list([n \in 1 .. Len(B) |-> RatMul(A[i][n], B[n][j])]))])])

IdentityFl(d) == list([i \in 1 .. d |-> list([j \in 1 .. d |-> IF i = j THEN 1 ELSE 0])])

(***************************************************************************)
(* Vectors and subspaces of GF(ell)^d                                      *)
(***************************************************************************)
Vectors(d, ell) == [1 .. d -> GF(ell)]

ZeroVec(d) == list([n \in 1 .. d |-> 0])

Dot(x, v, ell) == IntSum(list([n \in 1 .. Min(Len(x), Len(v)) |-> x[n] * v[n]])) % ell

\* the row vector x times the matrix M, over GF(ell)
VecMat(x, M, ell) ==
    list([j \in 1 .. Len(M[1]) |-> IntSum(list([i \in 1 .. Len(x) |-> x[i] * M[i][j]])) % ell])

Scale(c, v, ell) == list([n \in 1 .. Len(v) |-> (c * v[n]) % ell])

RECURSIVE SubsetsUpTo(_, _)
SubsetsUpTo(S, n) ==
    IF n = 0 THEN {{}}
    ELSE LET P == SubsetsUpTo(S, n - 1)
         IN  P \cup {p \cup {v} : p \in P, v \in S}

RECURSIVE LinComb(_, _, _, _)
LinComb(c, G, d, ell) ==
    IF G = {} THEN ZeroVec(d)
    ELSE LET g == CHOOSE h \in G : TRUE
             r == LinComb(c, G \ {g}, d, ell)
         IN  list([n \in 1 .. d |-> (c[g] * g[n] + r[n]) % ell])

Span(G, d, ell) == {LinComb(c, G, d, ell) : c \in [G -> GF(ell)]}

\* every proper subspace is spanned by at most d-1 vectors
ProperSubspaces(d, ell) ==
    {Span(G, d, ell) : G \in SubsetsUpTo(Vectors(d, ell), d - 1)}

\* basis_matrix().rank(): a subspace of rank r has ell^r elements
Rank(M, d, ell) == CHOOSE r \in 0 .. d : Pow(ell, r) = Cardinality(M)

\* basis_matrix().right_kernel(): the vectors orthogonal to every row
RightKernel(M, d, ell) == {v \in Vectors(d, ell) : \A m \in M : Dot(m, v, ell) = 0}

FirstNonzero(v) == v[CHOOSE n \in 1 .. Len(v) : v[n] # 0 /\ \A i \in 1 .. (n - 1) : v[i] = 0]

\* the echelon-form basis vector of a one-dimensional space
EchelonBasis0(V, d) == CHOOSE v \in V : v # ZeroVec(d) /\ FirstNonzero(v) = 1

\* position of a vector in lexicographic order
VecCode(v, ell) == IntSum(list([n \in 1 .. Len(v) |-> v[n] * Pow(ell, Len(v) - n)]))

(***************************************************************************)
(* FiniteDimensionalAlgebra(Fl, structure): x*e_i is x times structure[i]  *)
(***************************************************************************)
IsIdeal(M, structure, ell) ==
    \A x \in M : \A i \in 1 .. Len(structure) : VecMat(x, structure[i], ell) \in M

\* A.maximal_ideals(): the proper ideals contained in no other proper ideal
MaximalIdeals(structure, ell) ==
    LET d == Len(structure)
        P == {M \in ProperSubspaces(d, ell) : IsIdeal(M, structure, ell)}
    IN  {M \in P : \A M2 \in P : M \subseteq M2 => M = M2}

\* the maximal ideals of rank d-1 in the order the algebra lists them
\* (taken here by increasing echelon kernel vector)
RECURSIVE IdealSeq(_, _, _)
IdealSeq(S, d, ell) ==
    IF S = {} THEN <<>>
    ELSE LET key(M) == VecCode(EchelonBasis0(RightKernel(M, d, ell), d), ell)
             m == CHOOSE M \in S : \A M2 \in S : key(M) <= key(M2)
         IN  <<m>> \o IdealSeq(S \ {m}, d, ell)

(***************************************************************************)
(* reduction_maps                                                          *)
(***************************************************************************)
coords(b) == b

\* lines 106-109 before change_ring: the rational structure matrices
StructureQ(betas, poly) ==
    LET U == MatInverse(list([i \in 1 .. Len(betas) |-> coords(betas[i])]))
    IN  list([i \in 1 .. Len(betas) |->
            MatMul(list([j \in 1 .. Len(betas) |-> coords(KMul(betas[i], betas[j], poly))]), U)])

\* change_ring(Fl) fails on an entry whose denominator ell divides
ChangeRingFails(SQ, ell) ==
    \E i \in 1 .. Len(SQ) : \E r \in 1 .. Len(SQ[i]) : \E c \in 1 .. Len(SQ[i][r]) :
        SQ[i][r][c][2] % ell = 0

ChangeRing(SQ, ell) ==
    list([i \in 1 .. Len(SQ) |-> list([r \in 1 .. Len(SQ[i]) |-> list([c \in 1 .. Len(SQ[i][r]) |->
        FlOfRat(SQ[i][r][c], ell)])])])

\* lines 116-117: one kernel basis vector per maximal ideal of rank d-1.
\* right_kernel().basis()[0] spans the kernel; kern[n] is the unit by which
\* the n-th one differs from the echelon-form vector (1 when the basis is
\* in echelon form).
KernelVectors(structure, ell, kern) ==
    LET d  == Len(structure)
        MM == MaximalIdeals(structure, ell)
        Ms == IdealSeq({M \in MM : Rank(M, d, ell) = d - 1}, d, ell)
    IN  list([n \in 1 .. Len(Ms) |->
            list(Scale(kern[n], EchelonBasis0(RightKernel(Ms[n], d, ell), d), ell))])

\* line 133: the list bound to the loop variable v
Rescaled(v, ell) == Scale(FlInv(v[1], ell), v, ell)

\* lines 126-135: the loop rebinds its variable v and leaves the list vv as it was
RescaleLoop(vv, ell) == vv

Raise(e) == [raised |-> e, vv |-> <<>>]

Return(vv) == [raised |-> "", vv |-> vv]

reduction_maps(betas, poly, ell, kern) ==
    IF betas[1] # KOne(poly) THEN Raise("AssertionError")
    ELSE LET SQ == StructureQ(betas, poly)
         IN  IF ChangeRingFails(SQ, ell) THEN Raise("ZeroDivisionError")
             ELSE LET structure == ChangeRing(SQ, ell)
                  IN  IF structure[1] # IdentityFl(Len(betas)) THEN Raise("AssertionError")
                      ELSE LET vv == KernelVectors(structure, ell, kern)
                           IN  IF \E n \in 1 .. Len(vv) : vv[n][1] # 1 /\ vv[n][1] = 0
                               THEN Raise("ValueError")
                               ELSE Return(RescaleLoop(vv, ell))

\* the structure matrices reduction_maps builds (line 108)
StructureFl(betas, poly, ell) == ChangeRing(StructureQ(betas, poly), ell)

(***************************************************************************)
(* apply_red                                                               *)
(***************************************************************************)
\* Fl(sum([ci*ri for ci,ri in zip(coeffs,red)]))
apply_red(coeffs, red, ell) ==
    IntSum(list([n \in 1 .. Min(Len(coeffs), Len(red)) |-> coeffs[n] * red[n]])) % ell

(***************************************************************************)
(* The Hecke order's basis (make_reductions, lines 168-177)                *)
(***************************************************************************)
PowerBasis(poly) == list([i \in 1 .. Degree(poly) |-> KPow(KGen(poly), i - 1, poly)])

GenericBasis(numerators, denominators, poly) ==
    list([i \in 1 .. Min(Len(numerators), Len(denominators)) |->
        KOfNumDen(numerators[i], denominators[i], poly)])

Betas(numerators, denominators, poly) ==
    IF ~Truthy(numerators) THEN PowerBasis(poly)
    ELSE GenericBasis(numerators.val, denominators.val, poly)

(***************************************************************************)
(* Calls of reduction_maps on the bases of small orders                    *)
(***************************************************************************)
MaxCoef == 3

RedElls == {2, 3, 5}

IsSquare(n) == n >= 0 /\ \E r \in 0 .. n : r * r = n

\* monic irreducible polynomials: x, and the quadratics of non-square discriminant
FieldPolys ==
    {<<0, 1>>} \cup
    {p \in {<<c0, c1, 1>> : c0 \in (-MaxCoef) .. MaxCoef, c1 \in -1 .. 1} :
        ~IsSquare(p[2] * p[2] - 4 * p[1])}

\* the stored bases: a power basis (no numerators), or 1 and (n0 + n1*a)/den
BasisData(poly) ==
    {[numerators |-> None, denominators |-> None]} \cup
    (IF Degree(poly) # 2 THEN {}
     ELSE {[numerators |-> Some(<<<<1, 0>>, <<n0, n1>>>>), denominators |-> Some(<<1, den>>)] :
              n0 \in 0 .. 1, n1 \in 1 .. 2, den \in 1 .. 2})

\* betas generates an order: the products of basis elements have integer coordinates
IsOrderBasis(betas, poly) ==
    LET SQ == StructureQ(betas, poly)
    IN  \A i \in 1 .. Len(SQ) : \A r \in 1 .. Len(SQ) : \A c \in 1 .. Len(SQ) :
            SQ[i][r][c][2] = 1

RedArgs ==
    {a \in [poly : FieldPolys, basis : UNION {BasisData(p) : p \in FieldPolys}, ell : RedElls] :
        /\ a.basis \in BasisData(a.poly)
        /\ IsOrderBasis(Betas(a.basis.numerators, a.basis.denominators, a.poly), a.poly)}

IdleRun ==
    /\ ells = <<>>
    /\ levels = <<>>
    /\ pos = <<0, 0, 0>>
    /\ nf = <<>>
    /\ nnf = <<>>
    /\ nfx = <<>>
    /\ fetched = <<>>
    /\ forms = <<>>
    /\ ff_no_field = <<>>

InitRed ==
    /\ pc = "call"
    /\ \E a \in RedArgs : \E kern \in [1 .. Degree(a.poly) -> 1 .. (a.ell - 1)] :
          arg = [betas |-> Betas(a.basis.numerators, a.basis.denominators, a.poly),
                 poly |-> a.poly, ell |-> a.ell, kern |-> kern]
    /\ ret = Return(<<>>)
    /\ IdleRun

CallReductionMaps ==
    /\ pc = "call"
    /\ ret' = reduction_maps(arg.betas, arg.poly, arg.ell, arg.kern)
    /\ pc' = "return"
    /\ UNCHANGED <<arg, runvars>>

NextRed == CallReductionMaps

SpecRed == InitRed /\ [][NextRed]_vars


(***************************************************************************)
(* Calls of char_order_valid                                               *)
(***************************************************************************)
\* ZZ(m).prime_to_m_part(ell): m with every factor of ell divided out
RECURSIVE prime_to_m_part(_, _)
prime_to_m_part(m, ell) == IF m % ell = 0 THEN prime_to_m_part(m \div ell, ell) ELSE m

\* a.divides(b) for a >= 1
Divides(a, b) == b % a = 0

\* variant: the test the docstring describes, m1 is 1 mod ell
char_order_valid_docstring(m, ell) ==
    LET m1 == prime_to_m_part(m, ell)
    IN  m1 % ell = 1

char_order_valid(m, ell) ==
    LET m1 == prime_to_m_part(m, ell)
    IN  Divides(m1, ell - 1)

MaxOrder == 30

CharElls == {2, 3, 5, 7}

InitChar ==
    /\ pc = "call"
    /\ arg \in [m : 1 .. MaxOrder, ell : CharElls]
    /\ ret = FALSE
    /\ IdleRun

CallCharOrderValid ==
    /\ pc = "call"
    /\ ret' = char_order_valid(arg.m, arg.ell)
    /\ pc' = "return"
    /\ UNCHANGED <<arg, runvars>>

NextChar == CallCharOrderValid

SpecChar == InitChar /\ [][NextChar]_vars


(***************************************************************************)
(* Strings (sequences of one-character strings) and nf_to_string           *)
(***************************************************************************)
DigitChars == <<"0", "1", "2", "3", "4", "5", "6", "7", "8", "9">>

\* str(n) of an integer
RECURSIVE StrNat(_)
StrNat(n) == IF n < 10 THEN <<DigitChars[n + 1]>> ELSE StrNat(n \div 10) \o <<DigitChars[(n % 10) + 1]>>

str(n) == IF n < 0 THEN <<"-">> \o StrNat(-n) ELSE StrNat(n)

\* sep.join(parts)
RECURSIVE Join(_, _)
Join(parts, sep) ==
    IF parts = <<>> THEN <<>>
    ELSE IF Len(parts) = 1 THEN parts[1]
    ELSE parts[1] \o sep \o Join(Tail(parts), sep)

\* str(list) of a list whose items' reprs are given: "[" + ", ".join(items) + "]"
StrList(items) == <<"[">> \o Join(items, <<",", " ">>) \o <<"]">>

\* s.replace(c, "")
RECURSIVE Remove(_, _)
Remove(s, c) ==
    IF s = <<>> THEN <<>>
    ELSE IF s[1] = c THEN Remove(Tail(s), c)
    ELSE <<s[1]>> \o Remove(Tail(s), c)

\* s[1:-1]
Slice1m1(s) == IF Len(s) <= 2 THEN <<>> ELSE SubSeq(s, 2, Len(s) - 1)

\* s.split(c): the pieces between the occurrences of c
RECURSIVE Split(_, _)
Split(s, c) ==
    IF \A n \in 1 .. Len(s) : s[n] # c THEN <<s>>
    ELSE LET n == CHOOSE i \in 1 .. Len(s) : s[i] = c /\ \A j \in 1 .. (i - 1) : s[j] # c
         IN  <<SubSeq(s, 1, n - 1)>> \o Split(SubSeq(s, n + 1, Len(s)), c)

\* sorted(keys) of a set of integers
RECURSIVE Sorted(_)
Sorted(S) ==
    IF S = {} THEN <<>>
    ELSE LET m == CHOOSE x \in S : \A y \in S : x <= y
         IN  <<m>> \o Sorted(S \ {m})

\* variant: the list is never cut
TruncateApNever(aplist, nap) == aplist

\* lines 374-375: if nap and nap<len(aplist): aplist = aplist[:nap]
TruncateAp(aplist, nap) ==
    IF (~nap.none /\ nap.val # 0) /\ nap.val < Len(aplist)
    THEN SubSeq(aplist, 1, nap.val)
    ELSE aplist

\* str(nfr['chi_mod_ell']).replace(" ","") of a list of pairs [a, value]
StrChi(chi) ==
    Remove(StrList(list([n \in 1 .. Len(chi) |-> StrList(<<str(chi[n][1]), str(chi[n][2])>>)])), " ")

\* the result, or the ValueError of unpacking a label that has not four parts
nf_to_string(nfr, nap) ==
    LET label  == nfr.label
        parts  == Split(label, ".")
        ell    == str(nfr.ell)
        keys   == Sorted(DOMAIN nfr.ap)
        aplist == TruncateAp(list([n \in 1 .. Len(keys) |-> nfr.ap[keys[n]]]), nap)
        ap     == Slice1m1(Remove(StrList(list([n \in 1 .. Len(aplist) |-> str(aplist[n])])), " "))
        index  == str(nfr.index)
        dim    == str(nfr.d)
        chi_mod_ell == StrChi(nfr.chi_mod_ell)
    IN  IF Len(parts) # 4 THEN <<"ValueError">>
        ELSE Join(<<label, parts[1], parts[2], parts[3], parts[4],
                    dim, ell, index, chi_mod_ell, ap>>, <<":">>)

\* primes_first_n(n), for n up to the length of the table
PrimeTable == <<2, 3, 5, 7, 11, 13, 17, 19, 23, 29>>

primes_first_n(n) == SubSeq(PrimeTable, 1, n)

MaxNap == 3

MaxIndex == 2

StrElls == {2, 3}

\* newform labels level.weight.orbit.id
Labels == {Join(<<str(N), str(k), <<c>>, <<i>>>>, <<".">>) :
              N \in {11, 37}, k \in {2}, c \in {"a"}, i \in {"a", "b"}}

ApDicts(ell) ==
    UNION {[{primes_first_n(n)[i] : i \in 1 .. n} -> GF(ell)] : n \in 0 .. MaxNap}

StrArgs ==
    UNION {[label : Labels, d : {1, 2}, ell : {ell}, index : 1 .. MaxIndex,
            chi_mod_ell : {<<>>, <<<<2, ell - 1>>>>}, ap : ApDicts(ell)] : ell \in StrElls}

InitStr ==
    /\ pc = "call"
    /\ \E nfr \in StrArgs : \E nap \in {None} \cup {Some(n) : n \in 0 .. (MaxNap + 1)} :
          arg = [nfr |-> nfr, nap |-> nap]
    /\ ret = <<>>
    /\ IdleRun

CallNfToString ==
    /\ pc = "call"
    /\ ret' = nf_to_string(arg.nfr, arg.nap)
    /\ pc' = "return"
    /\ UNCHANGED <<arg, runvars>>

NextStr == CallNfToString

SpecStr == InitStr /\ [][NextStr]_vars


(***************************************************************************)
(* Properties of reduction_maps (SpecRed)                                  *)
(***************************************************************************)
\* C1: every vector reduction_maps returns has first coordinate 1 in GF(ell),
\* whichever nonzero spanning vector the kernel computation handed back.
C1_FirstCoordinateOne ==
    (pc = "return" /\ ret.raised = "") =>
        \A n \in 1 .. Len(ret.vv) : ret.vv[n][1] = 1

\* C8: every returned vector v is multiplicative on the order: apply_red of
\* row j of structure matrix i (the coordinates of betas[i]*betas[j]) is
\* v[i]*v[j] in GF(ell), for all basis indices i, j.
C8_Multiplicative ==
    (pc = "return" /\ ret.raised = "") =>
        LET S == StructureFl(arg.betas, arg.poly, arg.ell)
        IN  \A n \in 1 .. Len(ret.vv) : \A i \in 1 .. Len(S) : \A j \in 1 .. Len(S) :
                apply_red(S[i][j], ret.vv[n], arg.ell)
                    = (ret.vv[n][i] * ret.vv[n][j]) % arg.ell

(***************************************************************************)
(* Properties of char_order_valid (SpecChar)                               *)
(***************************************************************************)
\* the largest divisor of m prime to ell
CoprimePart(m, ell) ==
    CHOOSE q \in 1 .. m :
        /\ m % q = 0 /\ GCD(q, ell) = 1
        /\ \A r \in 1 .. m : (m % r = 0 /\ GCD(r, ell) = 1) => r <= q

DigitValue(c) == (CHOOSE n \in 1 .. 10 : DigitChars[n] = c) - 1

IsDigits(s) == s # <<>> /\ \A n \in 1 .. Len(s) : \E m \in 1 .. 10 : DigitChars[m] = s[n]

RECURSIVE ParseNat(_)
ParseNat(s) ==
    IF Len(s) = 1 THEN DigitValue(s[1])
    ELSE 10 * ParseNat(SubSeq(s, 1, Len(s) - 1)) + DigitValue(s[Len(s)])

\* the values at the first primes in ascending order, at most nap of them
\* when nap is a positive integer
ExpectedAp(nfr, nap) ==
    LET n   == Cardinality(DOMAIN nfr.ap)
        cut == IF ~nap.none /\ nap.val > 0 THEN Min(nap.val, n) ELSE n
    IN  list([i \in 1 .. cut |-> nfr.ap[PrimeTable[i]]])

\* C9: the line has ten colon-separated fields label, N, k, c, id, dim, ell,
\* index, chi_mod_ell, ap_list; N, k, c, id are the label's dot-separated
\* parts; ap_list holds the values in ascending order of prime, the first nap
\* of them when nap is configured and all of them otherwise.
C9_LineFormat ==
    pc = "return" =>
        LET f  == Split(ret, ":")
            ex == ExpectedAp(arg.nfr, arg.nap)
        IN  /\ Len(f) = 10
            /\ f[1] = arg.nfr.label
            /\ Join(<<f[2], f[3], f[4], f[5]>>, <<".">>) = arg.nfr.label
            /\ \A n \in 2 .. 5 : \A i \in 1 .. Len(f[n]) : f[n][i] # "."
            /\ IsDigits(f[6]) /\ ParseNat(f[6]) = arg.nfr.d
            /\ IsDigits(f[7]) /\ ParseNat(f[7]) = arg.nfr.ell
            /\ IsDigits(f[8]) /\ ParseNat(f[8]) = arg.nfr.index
            /\ f[9] = StrChi(arg.nfr.chi_mod_ell)
            /\ IF ex = <<>> THEN f[10] = <<>>
               ELSE LET items == Split(f[10], ",")
                    IN  /\ Len(items) = Len(ex)
                        /\ \A i \in 1 .. Len(ex) :
                              IsDigits(items[i]) /\ ParseNat(items[i]) = ex[i]

\* a record with three ap values written with nap = 2
C9_Witness ==
    /\ pc = "return"
    /\ arg.nap = Some(2)
    /\ Cardinality(DOMAIN arg.nfr.ap) = 3
    /\ ret = <<"1", "1", ".", "2", ".", "a", ".", "a", ":", "1", "1", ":", "2", ":",
               "a", ":", "a", ":", "1", ":", "2", ":", "1", ":", "[", "]", ":",
               "1", ",", "0">>


(***************************************************************************)
(* Newforms and the per-form pipeline                                      *)
(*                                                                         *)
(* A newform is a record of the attributes the code reads: label, level,   *)
(* weight, dim, char_order, field_poly, hecke_ring_cyclotomic_generator,   *)
(* hecke_ring_numerators, hecke_ring_denominators,                         *)
(* hecke_ring_character_values, ap (the coefficient vectors of the second  *)
(* table), and field_is_QQ: whether the library's comparison K==QQ holds   *)
(* for the field built from field_poly.                                    *)
(***************************************************************************)
\* line 292: NumberField(Qx(f.field_poly), 'a_')
NumberField(f) == [poly |-> f.field_poly.val, is_QQ |-> f.field_is_QQ]

\* a reduction: the callable of line 164, or a vector of reduction_maps
Callable == [callable |-> TRUE, vec |-> <<>>]

Vector(v) == [callable |-> FALSE, vec |-> v]

\* right_kernel().basis() in echelon form, as the library returns it
EchelonKern(d) == list([n \in 1 .. d |-> 1])

\* variant: make_reductions without the assertion of line 166
make_reductions_unasserted(form, K, ell) ==
    IF K.is_QQ THEN [raised |-> "", reds |-> <<Callable>>]
    ELSE LET betas == Betas(form.hecke_ring_numerators, form.hecke_ring_denominators, K.poly)
             r     == reduction_maps(betas, K.poly, ell, EchelonKern(Len(betas)))
         IN  [raised |-> r.raised, reds |-> list([n \in 1 .. Len(r.vv) |-> Vector(r.vv[n])])]

make_reductions(form, K, ell) ==
    IF K.is_QQ THEN [raised |-> "", reds |-> <<Callable>>]
    ELSE IF form.hecke_ring_cyclotomic_generator # 0
    THEN [raised |-> "AssertionError", reds |-> <<>>]
    ELSE LET betas == Betas(form.hecke_ring_numerators, form.hecke_ring_denominators, K.poly)
             r     == reduction_maps(betas, K.poly, ell, EchelonKern(Len(betas)))
         IN  [raised |-> r.raised, reds |-> list([n \in 1 .. Len(r.vv) |-> Vector(r.vv[n])])]

\* apply_red subscripts red (red[0].parent()): a TypeError on a callable
apply_red_raises(red) == red.callable

\* line 222: the dict p -> a_p mod ell over the first len(nf.ap) primes
reduce_ap_mod_ell(form, red, ell) ==
    LET ps == primes_first_n(Len(form.ap))
    IN  [p \in {ps[i] : i \in 1 .. Len(ps)} |->
            apply_red(form.ap[CHOOSE i \in 1 .. Len(ps) : ps[i] = p], red.vec, ell)]

reduce_chi_mod_ell(form, red, ell) ==
    IF form.char_order = 1 THEN <<>>
    ELSE list([n \in 1 .. Len(form.hecke_ring_character_values.val) |->
            <<form.hecke_ring_character_values.val[n][1],
              apply_red(form.hecke_ring_character_values.val[n][2], red.vec, ell)>>])

\* nf_mod_ell reaches apply_red once per ap and once per character value
nf_mod_ell_raises(form, red) ==
    /\ apply_red_raises(red)
    /\ \/ Len(form.ap) > 0
       \/ form.char_order # 1 /\ Len(form.hecke_ring_character_values.val) > 0

\* lines 336-342, with the 'ell' and 'index' entries run() adds (460, 465)
nf_mod_ell(form, red, ell, index) ==
    [label |-> form.label, N |-> form.level, k |-> form.weight, d |-> form.dim,
     ap |-> reduce_ap_mod_ell(form, red, ell),
     chi_mod_ell |-> reduce_chi_mod_ell(form, red, ell),
     ell |-> ell, index |-> index]

\* variant: the ap compared on the primes both records have
compare_record_shared(nf1, nf2) ==
    (nf1.ell = nf2.ell) /\ (\A p \in (DOMAIN nf1.ap) \cap (DOMAIN nf2.ap) : nf1.ap[p] = nf2.ap[p])

compare_record(nf1, nf2) == (nf1.ell = nf2.ell) /\ (nf1.ap = nf2.ap)

\* variant: the triple with dimension and ell exchanged
NoFieldTripleSwapped(f, ell) == <<f.label, ell, f.dim>>

\* line 282: the triple kept for a form without a Hecke field
NoFieldTriple(f, ell) == <<f.label, f.dim, ell>>

\* variant: no level is skipped
LevelNeverSkipped(N, ell) == FALSE

\* line 265
LevelIsSkipped(N, ell) == N % ell = 0


(***************************************************************************)
(* The database: the newforms a search at (N, k) can return                *)
(***************************************************************************)
Kind(dim, char_order, field_poly, cyc, numerators, denominators, chars, ap, is_QQ) ==
    [dim |-> dim, char_order |-> char_order, field_poly |-> field_poly,
     hecke_ring_cyclotomic_generator |-> cyc,
     hecke_ring_numerators |-> numerators, hecke_ring_denominators |-> denominators,
     hecke_ring_character_values |-> chars, ap |-> ap, field_is_QQ |-> is_QQ]

\* x^2+x+2, power basis: two reductions mod 2 (a -> 0, a -> 1), none mod 3
KindSplit2 == Kind(2, 1, Some(<<2, 1, 1>>), 0, None, None, None, <<<<1, 1>>>>, FALSE)

\* the order with basis 1, (1+a)/2 in the field of x^2+7: two reductions mod 2
\* with equal ap, none mod 3
KindGeneric == Kind(2, 1, Some(<<7, 0, 1>>), 0, Some(<<<<1, 0>>, <<1, 1>>>>), Some(<<1, 2>>),
                    None, <<<<1, 0>>>>, FALSE)

\* x^2-7, power basis, quadratic character with value -1 at the generator 2:
\* one reduction mod 2, two mod 3
KindSplit3 == Kind(2, 2, Some(<<-7, 0, 1>>), 0, None, None,
                   Some(<<<<2, <<-1, 0>>>>>>), <<<<0, 1>>>>, FALSE)

\* rational forms with two stored ap, the field not comparing equal to QQ, or equal
KindRational == Kind(1, 1, Some(<<0, 1>>), 0, None, None, None, <<<<1>>, <<-2>>>>, FALSE)

KindRationalQQ == Kind(1, 1, Some(<<0, 1>>), 0, None, None, None, <<<<1>>, <<-2>>>>, TRUE)

\* no field polynomial stored
KindNoField == Kind(2, 1, None, 0, None, None, None, <<>>, FALSE)

\* basis in terms of a root of unity
KindCyclotomic == Kind(2, 3, Some(<<1, 1, 1>>), 3, None, None,
                       Some(<<<<2, <<0, 1>>>>>>), <<<<0, 1>>>>, FALSE)

FormKinds == {KindSplit2, KindGeneric, KindSplit3, KindRational, KindRationalQQ,
              KindNoField, KindCyclotomic}

IdChars == <<"a", "b", "c", "d", "e", "f">>

Label(N, k, c, i) == Join(<<str(N), str(k), <<c>>, <<i>>>>, <<".">>)

\* the i-th newform of a search at (N, k)
Form(t, N, k, i) ==
    [label |-> Label(N, k, "a", IdChars[i]), level |-> N, weight |-> k,
     dim |-> t.dim, char_order |-> t.char_order, field_poly |-> t.field_poly,
     hecke_ring_cyclotomic_generator |-> t.hecke_ring_cyclotomic_generator,
     hecke_ring_numerators |-> t.hecke_ring_numerators,
     hecke_ring_denominators |-> t.hecke_ring_denominators,
     hecke_ring_character_values |-> t.hecke_ring_character_values,
     ap |-> t.ap, field_is_QQ |-> t.field_is_QQ]

MaxFetch == 1

\* what nfs.search({'level':N, 'weight':k}) can return (lines 269-270)
DbResults(N, k) ==
    UNION {{list([i \in 1 .. n |-> Form(ts[i], N, k, i)]) : ts \in [1 .. n -> FormKinds]} :
              n \in 0 .. MaxFetch}

(***************************************************************************)
(* get_forms                                                               *)
(***************************************************************************)
\* line 296: f.reductions = make_reductions(f, ell, verbose)
Reductions(f, ell) == make_reductions(f, NumberField(f), ell)

CharOrderOk(f, ell) == char_order_valid(f.char_order, ell)

\* the forms of line 286 with their reductions attached (lines 291-303), or
\* the exception the first failing make_reductions raises
get_forms(N, k, ell, dbforms) ==
    IF LevelIsSkipped(N, ell)
    THEN [raised |-> "", looped |-> <<>>, forms |-> <<>>, forms_with_no_field |-> <<>>]
    ELSE LET valid    == SelectSeq(dbforms, LAMBDA f : CharOrderOk(f, ell))
             nofield  == SelectSeq(valid, LAMBDA f : f.field_poly = None)
             kept     == SelectSeq(valid, LAMBDA f : Truthy(f.field_poly))
             made     == list([n \in 1 .. Len(kept) |-> Reductions(kept[n], ell)])
             failed   == {n \in 1 .. Len(kept) : made[n].raised # ""}
             looped   == list([n \in 1 .. Len(kept) |->
                              [f |-> kept[n], reductions |-> made[n].reds]])
         IN  IF failed # {}
             THEN [raised |-> made[CHOOSE n \in failed : \A m \in failed : n <= m].raised,
                   looped |-> <<>>, forms |-> <<>>, forms_with_no_field |-> <<>>]
             ELSE [raised |-> "", looped |-> looped,
                   forms |-> SelectSeq(looped, LAMBDA g : g.reductions # <<>>),
                   forms_with_no_field |->
                       list([n \in 1 .. Len(nofield) |-> NoFieldTriple(nofield[n], ell)])]


(***************************************************************************)
(* run                                                                     *)
(***************************************************************************)
\* variant: the index counts the earlier identical records only
RecordIndexFromZero(n_previous) == n_previous

\* line 465
RecordIndex(n_previous) == n_previous + 1

\* lines 457-466 for the (form, reduction) pairs in order: acc holds nf[ell],
\* nnf[ell] and the exception that ended the loop, if any
RECURSIVE AppendRecords(_, _, _)
AppendRecords(pairs, ell, acc) ==
    IF pairs = <<>> THEN acc
    ELSE LET f   == pairs[1][1]
             red == pairs[1][2]
         IN  IF nf_mod_ell_raises(f, red) THEN [acc EXCEPT !.raised = "TypeError"]
             ELSE LET nfr0 == nf_mod_ell(f, red, ell, 0)
                      n_previous ==
                          Cardinality({i \in 1 .. Len(acc.nf) : compare_record(nfr0, acc.nf[i])})
                      nfr == [nfr0 EXCEPT !.index = RecordIndex(n_previous)]
                  IN  AppendRecords(Tail(pairs), ell,
                          [nf  |-> Append(acc.nf, nfr),
                           nnf |-> IF n_previous = 0 THEN acc.nnf + 1 ELSE acc.nnf,
                           raised |-> ""])

\* for f in ff: for red in f.reductions
RECURSIVE Pairs(_)
Pairs(ff) ==
    IF ff = <<>> THEN <<>>
    ELSE list([n \in 1 .. Len(ff[1].reductions) |-> <<ff[1].f, ff[1].reductions[n]>>])
            \o Pairs(Tail(ff))

\* range(2, 1+max(ell+1,4)) ends with this weight
LastWeight(ell) == Max(ell + 1, 4)

Finished(p) == p[1] > Len(ells)

\* the next (ell, k, N) of the three nested loops; p = <<index of ell, k, index of N>>
Advance(p) ==
    IF p[3] < Len(levels) THEN <<p[1], p[2], p[3] + 1>>
    ELSE IF p[2] < LastWeight(ells[p[1]]) THEN <<p[1], p[2] + 1, 1>>
    ELSE <<p[1] + 1, 2, 1>>

SetOf(s) == {s[i] : i \in 1 .. Len(s)}

OutputSize(nf1, nfx1) ==
    IntSum(list([i \in 1 .. Len(ells) |-> Len(nf1[ells[i]]) + Len(nfx1[ells[i]])]))

MaxRecords == 4

RunInputs == {[ells |-> <<2>>, levels |-> <<6, 37>>], [ells |-> <<3>>, levels |-> <<6, 37>>]}

Init ==
    /\ pc = "loop"
    /\ arg = <<>>
    /\ ret = ""
    /\ \E r \in RunInputs : ells = r.ells /\ levels = r.levels
    /\ pos = <<1, 2, 1>>
    /\ nf = [e \in SetOf(ells) |-> <<>>]
    /\ nnf = [e \in SetOf(ells) |-> 0]
    /\ nfx = [e \in SetOf(ells) |-> <<>>]
    /\ fetched = [N |-> 0, k |-> 0, ell |-> 0, forms |-> <<>>]
    /\ forms = <<>>
    /\ ff_no_field = <<>>

\* a triple with ell dividing N: get_forms returns two empty lists at once
SkipTriple ==
    /\ pc = "loop" /\ ~Finished(pos)
    /\ LET ell == ells[pos[1]]
           k   == pos[2]
           N   == levels[pos[3]]
       IN  /\ LevelIsSkipped(N, ell)
           /\ \E g \in {get_forms(N, k, ell, <<>>)} :
                /\ g.raised = ""
                /\ fetched' = [N |-> N, k |-> k, ell |-> ell, forms |-> <<>>]
                /\ forms' = g.looped
                /\ ff_no_field' = g.forms_with_no_field
                /\ nfx' = [nfx EXCEPT ![ell] = @ \o g.forms_with_no_field]
           /\ pos' = Advance(pos)
           /\ UNCHANGED <<pc, arg, ret, ells, levels, nf, nnf>>

\* one pass of the loop body, lines 448-471
RunTriple ==
    /\ pc = "loop" /\ ~Finished(pos)
    /\ LET ell == ells[pos[1]]
           k   == pos[2]
           N   == levels[pos[3]]
       IN  /\ ~LevelIsSkipped(N, ell)
           /\ \E dbforms \in DbResults(N, k) :
              \E g \in {get_forms(N, k, ell, dbforms)} :
              \E acc \in {AppendRecords(Pairs(g.forms), ell,
                              [nf |-> nf[ell], nnf |-> nnf[ell], raised |-> ""])} :
                LET nfx1 == [nfx EXCEPT ![ell] = @ \o g.forms_with_no_field]
                    nf1  == [nf EXCEPT ![ell] = acc.nf]
                IN  /\ fetched' = [N |-> N, k |-> k, ell |-> ell, forms |-> dbforms]
                    /\ \/ /\ g.raised # ""
                          /\ pc' = "raised" /\ ret' = g.raised
                          /\ forms' = <<>> /\ ff_no_field' = <<>>
                          /\ UNCHANGED <<pos, nf, nnf, nfx>>
                       \/ /\ g.raised = "" /\ acc.raised # ""
                          /\ OutputSize(nf1, nfx1) <= MaxRecords
                          /\ pc' = "raised" /\ ret' = acc.raised
                          /\ forms' = g.looped /\ ff_no_field' = g.forms_with_no_field
                          /\ nfx' = nfx1 /\ nf' = nf1
                          /\ nnf' = [nnf EXCEPT ![ell] = acc.nnf]
                          /\ UNCHANGED pos
                       \/ /\ g.raised = "" /\ acc.raised = ""
                          /\ OutputSize(nf1, nfx1) <= MaxRecords
                          /\ pc' = "loop" /\ ret' = ret
                          /\ forms' = g.looped /\ ff_no_field' = g.forms_with_no_field
                          /\ nfx' = nfx1 /\ nf' = nf1
                          /\ nnf' = [nnf EXCEPT ![ell] = acc.nnf]
                          /\ pos' = Advance(pos)
                    /\ UNCHANGED <<arg, ells, levels>>

\* line 477: return nf, nfx
RunReturn ==
    /\ pc = "loop" /\ Finished(pos)
    /\ pc' = "done"
    /\ UNCHANGED <<arg, ret, runvars>>

Next == SkipTriple \/ RunTriple \/ RunReturn

Spec == Init /\ [][Next]_vars


(***************************************************************************)
(* Properties of run (Spec)                                                *)
(***************************************************************************)
\* the positions of nf[e] before j whose reduced-ap mapping is identical to the j-th
Identical(e, j) == {i \in 1 .. (j - 1) : nf[e][i].ap = nf[e][j].ap}

\* C2: every record of nf[ell] has index 1 + the number of earlier records of
\* nf[ell] with an identical reduced-ap mapping, and nnf[ell] is the number of
\* records of nf[ell] whose index is 1.
C2_IndexCountsRepeats ==
    \A e \in DOMAIN nf :
        /\ \A j \in 1 .. Len(nf[e]) : nf[e][j].index = 1 + Cardinality(Identical(e, j))
        /\ nnf[e] = Cardinality({j \in 1 .. Len(nf[e]) : nf[e][j].index = 1})

\* mappings appended in the order A, A, A, B: indices 1, 2, 3, 1 and two distinct
C2_Witness ==
    \E e \in DOMAIN nf :
        /\ Len(nf[e]) = 4
        /\ list([j \in 1 .. 4 |-> nf[e][j].index]) = <<1, 2, 3, 1>>
        /\ nf[e][1].ap = nf[e][2].ap /\ nf[e][2].ap = nf[e][3].ap
        /\ nf[e][4].ap # nf[e][1].ap
        /\ nnf[e] = 2

\* a form of the last search that reaches make_reductions and fails its assertion
FatalIn(q) ==
    \E i \in 1 .. Len(q.forms) :
        LET f == q.forms[i]
        IN  /\ ~LevelIsSkipped(q.N, q.ell)
            /\ CharOrderOk(f, q.ell)
            /\ Truthy(f.field_poly)
            /\ ~f.field_is_QQ
            /\ f.hecke_ring_cyclotomic_generator # 0

\* C3 as stated: a form that hits a fatal condition is the only thing abandoned,
\* run() goes on with the remaining forms and triples.
C3_RunContinues == FatalIn(fetched) => pc # "raised"

\* C3: a form whose basis is given by a cyclotomic generator fails the assertion
\* of make_reductions, nothing catches it, and run() ends with that exception at
\* this triple: no record or deferred form is added and nothing is returned.
C3_FatalAbortsRun ==
    [][(pc = "loop" /\ FatalIn(fetched'))
        => (pc' = "raised" /\ ret' = "AssertionError" /\ UNCHANGED <<nf, nnf, nfx, pos>>)]_vars

\* run() raised on a cyclotomic form after records had been collected
C3_Witness ==
    /\ pc = "raised" /\ ret = "AssertionError"
    /\ FatalIn(fetched)
    /\ Len(nf[fetched.ell]) > 0

\* how often x occurs in the sequence s
Count(s, x) == Cardinality({n \in 1 .. Len(s) : s[n] = x})

\* get_forms returned for the last search (run() went on to the record loop)
GetFormsReturned == pc # "raised" \/ ret = "TypeError"

C5_RationalRecord ==
    \A i \in 1 .. Len(fetched.forms) :
        LET f   == fetched.forms[i]
            ell == fetched.ell
        IN  (/\ ~LevelIsSkipped(fetched.N, ell) /\ CharOrderOk(f, ell)
             /\ Truthy(f.field_poly) /\ f.dim = 1 /\ f.field_is_QQ
             /\ GetFormsReturned) =>
                /\ pc # "raised"
                /\ \E j \in 1 .. Len(forms) : forms[j].f = f /\ Len(forms[j].reductions) = 1
                /\ Cardinality({j \in 1 .. Len(nf[ell]) : nf[ell][j].label = f.label}) = 1
                /\ \A j \in 1 .. Len(nf[ell]) :
                      nf[ell][j].label = f.label =>
                          \A n \in 1 .. Len(f.ap) :
                              nf[ell][j].ap[PrimeTable[n]] = f.ap[n][1] % ell

\* the level a label starts with
LevelOfLabel(label) == ParseNat(Split(label, ".")[1])

\* C7: no record of nf[ell] and no triple of nfx[ell] comes from a level that
\* ell divides, and a search at such a level hands run() no form at all.
C7_NoLevelDivisibleByEll ==
    /\ \A e \in DOMAIN nf : \A j \in 1 .. Len(nf[e]) :
          nf[e][j].N % e # 0 /\ LevelOfLabel(nf[e][j].label) % e # 0
    /\ \A e \in DOMAIN nfx : \A j \in 1 .. Len(nfx[e]) :
          LevelOfLabel(nfx[e][j][1]) % e # 0
    /\ (fetched.ell # 0 /\ LevelIsSkipped(fetched.N, fetched.ell)) =>
          forms = <<>> /\ ff_no_field = <<>>

\* the triple (ell, k, 6) was skipped after records had been collected at level 37
C7_Witness ==
    /\ pc = "loop"
    /\ fetched.ell # 0 /\ fetched.N = 6 /\ fetched.k > 2
    /\ LevelIsSkipped(fetched.N, fetched.ell)
    /\ Len(nf[fetched.ell]) > 0
    /\ Len(nfx[fetched.ell]) > 0

\* two mappings that agree wherever both are defined
AgreeOnShared(a, b) == \A p \in (DOMAIN a) \cap (DOMAIN b) : a[p] = b[p]

\* C10 as stated: a record is counted as a repeat of every earlier record of the
\* same ell whose mapping agrees with its own on the primes they share.
C10_RepeatOnSharedKeys ==
    \A e \in DOMAIN nf : \A j \in 1 .. Len(nf[e]) :
        nf[e][j].index =
            1 + Cardinality({i \in 1 .. (j - 1) : AgreeOnShared(nf[e][i].ap, nf[e][j].ap)})

\* C10: a record is counted as a repeat of an earlier record of the same ell
\* exactly when the two mappings have the same set of primes and the same value
\* at each; mappings over different sets of primes are never repeats of each other.
C10_RepeatOnSameKeysAndValues ==
    \A e \in DOMAIN nf : \A j \in 1 .. Len(nf[e]) :
        nf[e][j].index =
            1 + Cardinality({i \in 1 .. (j - 1) :
                    /\ DOMAIN nf[e][i].ap = DOMAIN nf[e][j].ap
                    /\ \A p \in DOMAIN nf[e][j].ap : nf[e][i].ap[p] = nf[e][j].ap[p]})

\* a record over two primes that agrees at the shared prime with an earlier record
\* over one prime, and is not counted as its repeat
C10_Witness ==
    \E e \in DOMAIN nf : \E j \in 1 .. Len(nf[e]) : \E i \in 1 .. (j - 1) :
        /\ DOMAIN nf[e][i].ap # DOMAIN nf[e][j].ap
        /\ AgreeOnShared(nf[e][i].ap, nf[e][j].ap)
        /\ nf[e][j].index = 1

====
